---- MODULE Spec2Model ----
(***************************************************************************)
(* A model of mesher: the packet/chunk layer (packet.rs), the routing      *)
(* orchestrator (mesher.rs), the Transport contract (transports.rs) and    *)
(* the TCP backend (tcp.rs).                                               *)
(*                                                                         *)
(* Bytes are naturals; byte strings, Rust Strings (as their UTF-8 bytes)   *)
(* and raw packets are sequences of bytes.                                 *)
(***************************************************************************)
EXTENDS Integers, Sequences, FiniteSets, TLC

VARIABLES
  chunks,        \* Packet.chunks of the packet under construction (packet.rs)
  wire,          \* the serialized bytes handed to / taken from the wire
  keys,          \* the &[SecretKey] given to from_bytes
  dis,           \* the result of from_bytes
  stage,         \* position of the packet pipeline: build, wire, done
  own_skeys,     \* Mesher.own_skeys, per node
  sender_pkeys,  \* Mesher.sender_pkeys, per node
  mode,          \* how each node's Mesher was constructed: none (not yet),
                 \* unsigned, signed, or failed (the constructor panicked)
  transports,    \* Mesher.transports, per node: scheme -> Transport or NoTransport
  last,          \* the outcome of the last Mesher operation, as its caller sees it
  dropping       \* the TCP whose Drop::drop is running, or NoTransport

vars ==
  <<chunks, wire, keys, dis, stage, own_skeys, sender_pkeys, mode, transports,
    last, dropping>>

packetVars == <<chunks, wire, keys, dis, stage>>
mesherVars == <<own_skeys, sender_pkeys, mode, transports, last, dropping>>

----------------------------------------------------------------------------
(* Bounds *)

\* most chunks in a packet built by the packet pipeline
MaxChunks == 2

\* most secret keys in a key list handed to from_bytes
MaxKeys == 2

\* most raw packets the network holds for delivery at once, over all Transports
NetCapacity == 2

\* most orders and received buffers the channels of one TCP hold at once
MaxOrders == 2

----------------------------------------------------------------------------
(* Bytes and strings *)

\* ':' as a byte
Colon == 58

\* a byte that can occur in no UTF-8 text (0xFF)
BadByte == 255

\* String::from_utf8 succeeds on bs. The model's bytes are ASCII or 0xFF, so
\* a string is valid exactly when it has no 0xFF.
IsUtf8(bs) == \A i \in 1..Len(bs) : bs[i] < 128

\* the sequences over S of length at most n
SeqUpTo(S, n) == UNION {[1..k -> S] : k \in 0..n}

\* the element of a one-element set. Only({e(x) : x \in {v}}) is e of the
\* value of v, with v computed once.
Only(S) == CHOOSE x \in S : TRUE

RECURSIVE Concat(_)
\* the concatenation of a sequence of sequences
Concat(ss) == IF ss = <<>> THEN <<>> ELSE Head(ss) \o Concat(Tail(ss))

----------------------------------------------------------------------------
(* Key material: the asymmetric primitive behind SecretKey / PublicKey *)

\* the secret keys that exist
SecretKeys == {1, 2, 3}

\* SecretKey::pkey: the public half of a secret key
pkey(sk) == sk + 10

PublicKeys == {pkey(sk) : sk \in SecretKeys}

\* PublicKey::encrypt: the ciphertext names the key it was sealed for and
\* carries the plaintext; anyone can produce it, only the secret half opens it.
key_encrypt(pk, raw) == <<pk>> \o raw

\* SecretKey::decrypt: Ok(plaintext) for a ciphertext sealed for this key's
\* public half, Err(()) for anything else.
key_decrypt(sk, bytes) ==
  IF Len(bytes) >= 1 /\ bytes[1] = pkey(sk)
    THEN [ok |-> TRUE, val |-> Tail(bytes)]
    ELSE [ok |-> FALSE, val |-> <<>>]

----------------------------------------------------------------------------
(* Chunk (packet.rs) *)

Message(m) == [tag |-> "Message", body |-> m]
Transport(to) == [tag |-> "Transport", body |-> to]
Encrypted(v) == [tag |-> "Encrypted", body |-> v]

\* Chunk::encrypt with the tag byte of a forwarding path written as 0
encrypt_one_tag(chunk, key) ==
  CASE chunk.tag = "Message" -> key_encrypt(key, <<0>> \o chunk.body)
    [] chunk.tag = "Transport" -> key_encrypt(key, <<0>> \o chunk.body)
    [] chunk.tag = "Encrypted" -> chunk.body

\* Chunk::encrypt
encrypt(chunk, key) ==
  CASE chunk.tag = "Message" -> key_encrypt(key, <<0>> \o chunk.body)
    [] chunk.tag = "Transport" -> key_encrypt(key, <<1>> \o chunk.body)
    [] chunk.tag = "Encrypted" -> chunk.body

\* Chunk::decrypt_onekey taking any tag-1 body for a path
decrypt_onekey_lossy(bytes, key) ==
  LET attempt_dec == key_decrypt(key, bytes) IN
  IF ~attempt_dec.ok THEN [ok |-> FALSE, val |-> Encrypted(<<>>)]
  ELSE IF attempt_dec.val = <<>> THEN [ok |-> FALSE, val |-> Encrypted(<<>>)]
  ELSE IF attempt_dec.val[1] = 0
    THEN [ok |-> TRUE, val |-> Message(Tail(attempt_dec.val))]
  ELSE IF attempt_dec.val[1] = 1
    THEN [ok |-> TRUE, val |-> Transport(Tail(attempt_dec.val))]
  ELSE [ok |-> FALSE, val |-> Encrypted(<<>>)]

\* Chunk::decrypt_onekey: Ok(chunk) or Err(())
decrypt_onekey(bytes, key) ==
  LET attempt_dec == key_decrypt(key, bytes) IN
  IF ~attempt_dec.ok THEN [ok |-> FALSE, val |-> Encrypted(<<>>)]
  ELSE IF attempt_dec.val = <<>> THEN [ok |-> FALSE, val |-> Encrypted(<<>>)]
  ELSE IF attempt_dec.val[1] = 0
    THEN [ok |-> TRUE, val |-> Message(Tail(attempt_dec.val))]
  ELSE IF attempt_dec.val[1] = 1
    THEN IF IsUtf8(Tail(attempt_dec.val))
           THEN [ok |-> TRUE, val |-> Transport(Tail(attempt_dec.val))]
           ELSE [ok |-> FALSE, val |-> Encrypted(<<>>)]
  ELSE [ok |-> FALSE, val |-> Encrypted(<<>>)]

RECURSIVE decrypt_from(_, _, _)
\* the loop of Chunk::decrypt from the i-th key on
decrypt_from(bytes, ks, i) ==
  IF i > Len(ks) THEN Encrypted(bytes)
  ELSE IF decrypt_onekey(bytes, ks[i]).ok THEN decrypt_onekey(bytes, ks[i]).val
  ELSE decrypt_from(bytes, ks, i + 1)

\* Chunk::decrypt handing back what no key opens as a message
decrypt_leaky(bytes, ks) ==
  IF decrypt_from(bytes, ks, 1).tag = "Encrypted"
    THEN Message(bytes)
    ELSE decrypt_from(bytes, ks, 1)

\* Chunk::decrypt trying the first key only
decrypt_first_key(bytes, ks) ==
  IF ks # <<>> /\ decrypt_onekey(bytes, ks[1]).ok
    THEN decrypt_onekey(bytes, ks[1]).val
    ELSE Encrypted(bytes)

\* Chunk::decrypt passing over the first key
decrypt_skipping_first(bytes, ks) == decrypt_from(bytes, ks, 2)

\* Chunk::decrypt
decrypt(bytes, ks) == decrypt_from(bytes, ks, 1)

----------------------------------------------------------------------------
(* The framing codec (bincode over Vec<Vec<u8>>): a count, then each blob   *)
(* behind its length.  A length prefix is one unit here.                   *)

\* bincode::serialize of a list of blobs
serialize(blobs) ==
  <<Len(blobs)>> \o Concat([i \in 1..Len(blobs) |-> <<Len(blobs[i])>> \o blobs[i]])

RECURSIVE read_blobs(_, _, _)
\* read n length-prefixed blobs from position pos of raw
read_blobs(raw, pos, n) ==
  IF n = 0 THEN [ok |-> TRUE, val |-> <<>>]
  ELSE IF pos > Len(raw) THEN [ok |-> FALSE, val |-> <<>>]
  ELSE IF pos + raw[pos] > Len(raw) THEN [ok |-> FALSE, val |-> <<>>]
  ELSE LET rest == read_blobs(raw, pos + 1 + raw[pos], n - 1) IN
       IF rest.ok
         THEN [ok |-> TRUE,
               val |-> <<SubSeq(raw, pos + 1, pos + raw[pos])>> \o rest.val]
         ELSE rest

\* bincode::deserialize::<Vec<Vec<u8>>>: Ok(blobs) or Err
deserialize(raw) ==
  IF raw = <<>> THEN [ok |-> FALSE, val |-> <<>>]
  ELSE read_blobs(raw, 2, raw[1])

----------------------------------------------------------------------------
(* Packet (packet.rs) *)

\* Packet::add_message
add_message(pkt, data, target_pkey) == Append(pkt, <<Message(data), target_pkey>>)

\* Packet::add_hop
add_hop(pkt, path, node_pkey) == Append(pkt, <<Transport(path), node_pkey>>)

\* Packet::into_bytes
into_bytes(pkt) ==
  serialize([i \in 1..Len(pkt) |-> encrypt(pkt[i][1], pkt[i][2])])

\* Packet::from_bytes taking bytes whose framing does not parse for a packet
\* with no chunks
from_bytes_skipping(packet, ks) ==
  Only({IF d.ok
          THEN [ok |-> TRUE, val |-> [i \in 1..Len(d.val) |-> decrypt(d.val[i], ks)]]
          ELSE [ok |-> TRUE, val |-> <<>>] :
        d \in {deserialize(packet)}})

\* Packet::from_bytes: Ok(chunks) or Err(InvalidPacket)
from_bytes(packet, ks) ==
  Only({IF d.ok
          THEN [ok |-> TRUE, val |-> [i \in 1..Len(d.val) |-> decrypt(d.val[i], ks)]]
          ELSE [ok |-> FALSE, val |-> "InvalidPacket"] :
        d \in {deserialize(packet)}})

----------------------------------------------------------------------------
(* The packet pipeline: build a Packet, serialize it, disassemble it.  Its  *)
(* inputs are drawn from the sets below.                                    *)

\* message payloads: empty, plain, and one that looks like a bad forwarding path
Datas == {<<>>, <<7>>, <<1, BadByte>>}

\* forwarding paths (Rust Strings, so valid UTF-8): "a:1", "b:2", "n"
HopPaths == {<<97, Colon, 49>>, <<98, Colon, 50>>, <<110>>}

\* the key lists a disassembler may hold
KeyLists == SeqUpTo(SecretKeys, MaxKeys)

\* wire bytes that no into_bytes produced: unparsable framing (empty input,
\* missing blob, length past the end), and parsable framing around blobs that
\* key 1 opens to an empty body, an unknown tag, a non-UTF-8 path, or that no
\* key opens
ForgedWires ==
  { <<>>, <<1>>, <<1, 5, 11>>, <<2, 2, 11, 0>>,
    <<1, 1, 11>>, <<1, 2, 11, 9>>, <<1, 3, 11, 1, BadByte>>,
    <<1, 2, 99, 0>>, <<0>>, <<2, 1, 11, 2, 12, 0>> }

PacketInit ==
  /\ chunks = <<>>
  /\ wire = <<>>
  /\ keys \in KeyLists
  /\ dis = [ok |-> FALSE, val |-> "none"]
  /\ stage = "build"

\* packet = packet.add_message(data, target_pkey)
AddMessage(data, target_pkey) ==
  /\ stage = "build"
  /\ Len(chunks) < MaxChunks
  /\ chunks' = add_message(chunks, data, target_pkey)
  /\ UNCHANGED <<wire, keys, dis, stage>>
  /\ UNCHANGED mesherVars

\* packet = packet.add_hop(path, node_pkey)
AddHop(path, node_pkey) ==
  /\ stage = "build"
  /\ Len(chunks) < MaxChunks
  /\ chunks' = add_hop(chunks, path, node_pkey)
  /\ UNCHANGED <<wire, keys, dis, stage>>
  /\ UNCHANGED mesherVars

\* wire = packet.into_bytes()
IntoBytes ==
  /\ stage = "build"
  /\ wire' = into_bytes(chunks)
  /\ stage' = "wire"
  /\ UNCHANGED <<chunks, keys, dis>>
  /\ UNCHANGED mesherVars

\* bytes arrive that no into_bytes produced
Forge(raw) ==
  /\ stage = "build"
  /\ chunks = <<>>
  /\ wire' = raw
  /\ stage' = "forged"
  /\ UNCHANGED <<chunks, keys, dis>>
  /\ UNCHANGED mesherVars

\* dis = Packet::from_bytes(&wire, &keys)
FromBytes ==
  /\ stage \in {"wire", "forged"}
  /\ dis' = from_bytes(wire, keys)
  /\ stage' = IF stage = "wire" THEN "done" ELSE "doneForged"
  /\ UNCHANGED <<chunks, wire, keys>>
  /\ UNCHANGED mesherVars

PacketNext ==
  \/ \E d \in Datas, k \in PublicKeys : AddMessage(d, k)
  \/ \E p \in HopPaths, k \in PublicKeys : AddHop(p, k)
  \/ IntoBytes
  \/ \E raw \in ForgedWires : Forge(raw)
  \/ FromBytes

----------------------------------------------------------------------------
(* Mesher (mesher.rs) over the Transport contract (transports.rs)           *)

Nodes == {1, 2}

\* the schemes a Transport gets registered under: "a", "b"
Schemes == {<<97>>, <<98>>}

\* A Transport is a record: up (a Transport is there), kind ("net": a
\* Transport that hands blobs to the network of the model; "tcp": TCP of
\* tcp.rs), inbox (the raw packets it has buffered; for TCP the data channel),
\* and for TCP orders (the orders channel) and worker (the listener thread:
\* running or exited).

\* a slot of the registry with nothing registered
NoTransport ==
  [up |-> FALSE, kind |-> "none", inbox |-> <<>>, orders |-> <<>>, worker |-> "none"]

\* fail::MesherFail values
Fail(kind, detail) == [kind |-> kind, detail |-> detail]
NoFail == Fail("none", <<>>)

\* Transport::new(scheme) of a network Transport: Ok(a Transport with nothing
\* buffered) or, when it is not built, Err(SetupFailure)
new_transport(scheme, built) ==
  IF built
    THEN [ok |-> TRUE, err |-> NoFail,
          val |-> [up |-> TRUE, kind |-> "net", inbox |-> <<>>, orders |-> <<>>,
                   worker |-> "none"]]
    ELSE [ok |-> FALSE, err |-> Fail("SetupFailure", <<>>), val |-> NoTransport]

\* a call of a method of the Transport registered under scheme, as that
\* Transport sees it: the arguments it was given, whether it returned Ok, and
\* for a receive the raw packets it returned
Called(method, scheme, path, blob, ok, got) ==
  [method |-> method, scheme |-> scheme, path |-> path, blob |-> blob, ok |-> ok,
   got |-> got]

Call(method, scheme, path, blob, ok) == Called(method, scheme, path, blob, ok, <<>>)

\* a split at the last colon in place of the first
splitn2_last(path) ==
  IF \E i \in 1..Len(path) : path[i] = Colon
    THEN LET c == CHOOSE i \in 1..Len(path) :
                    /\ path[i] = Colon
                    /\ \A j \in (i + 1)..Len(path) : path[j] # Colon
         IN <<SubSeq(path, 1, c - 1), SubSeq(path, c + 1, Len(path))>>
    ELSE <<path>>

\* path.splitn(2, ':'): the segments, at most two, split at the first colon
splitn2(path) ==
  IF \E i \in 1..Len(path) : path[i] = Colon
    THEN LET c == CHOOSE i \in 1..Len(path) :
                    /\ path[i] = Colon
                    /\ \A j \in 1..(i - 1) : path[j] # Colon
         IN <<SubSeq(path, 1, c - 1), SubSeq(path, c + 1, Len(path))>>
    ELSE <<path>>

\* Mesher::get_transport_for_path on the registry reg of one Mesher:
\* Ok(scheme of the transport) or Err
get_transport_for_path(reg, path) ==
  LET segs == splitn2(path) IN
  IF Len(segs) = 0
    THEN [ok |-> FALSE, scheme |-> <<>>,
          err |-> Fail("InvalidURL", <<>>)]
    ELSE LET scheme == segs[1] IN
         IF scheme \in Schemes /\ reg[scheme].up
           THEN [ok |-> TRUE, scheme |-> scheme, err |-> NoFail]
           ELSE [ok |-> FALSE, scheme |-> scheme,
                 err |-> Fail("UnregisteredScheme", scheme)]

----------------------------------------------------------------------------
(* TCP (tcp.rs) *)

\* an Order: Quit, Tx(dest, data) or Rx(on)
Order(kind, addr, data) == [kind |-> kind, addr |-> addr, data |-> data]
Quit == Order("Quit", <<>>, <<>>)

\* the bytes the listener thread hands over for an Rx order: vec![1, 2, 3]
RxData == <<1, 2, 3>>

\* a byte is a hex digit: 0-9, A-F, a-f
IsHex(b) == (b >= 48 /\ b <= 57) \/ (b >= 65 /\ b <= 70) \/ (b >= 97 /\ b <= 102)

\* colon-separated groups of one to four hex digits, or nothing
HexGroups(s) ==
  \/ s = <<>>
  \/ /\ \A i \in 1..Len(s) : IsHex(s[i]) \/ s[i] = Colon
     /\ s[1] # Colon /\ s[Len(s)] # Colon
     /\ \A i \in 1..(Len(s) - 1) : ~(s[i] = Colon /\ s[i + 1] = Colon)
     /\ \A i \in 1..(Len(s) - 4) : \E j \in i..(i + 4) : s[j] = Colon

\* path.parse::<IpAddr>() succeeds. The paths of the model have no dot and
\* fewer than eight groups, so a valid one is an IPv6 address with one "::"
\* between groups of hex digits.
IsIpAddr(path) ==
  \E i \in 1..(Len(path) - 1) :
    /\ path[i] = Colon /\ path[i + 1] = Colon
    /\ HexGroups(SubSeq(path, 1, i - 1))
    /\ HexGroups(SubSeq(path, i + 2, Len(path)))

\* TCP::new: Ok(a TCP whose listener thread runs) or, when the thread is not
\* spawned, Err(SetupFailure)
tcp_new(scheme, spawned) ==
  IF spawned
    THEN [ok |-> TRUE, err |-> NoFail,
          val |-> [up |-> TRUE, kind |-> "tcp", inbox |-> <<>>, orders |-> <<>>,
                   worker |-> "running"]]
    ELSE [ok |-> FALSE, err |-> Fail("SetupFailure", <<>>), val |-> NoTransport]

\* orders.send(order): Err once the listener thread, which owns the receiving
\* end, has exited
orders_send(t, order) ==
  IF t.worker = "exited"
    THEN [ok |-> FALSE, t |-> t]
    ELSE [ok |-> TRUE, t |-> [t EXCEPT !.orders = Append(@, order)]]

\* TCP::send
tcp_send(t, path, blob) ==
  IF ~IsIpAddr(path)
    THEN [ok |-> FALSE, err |-> Fail("InvalidURL", <<>>), t |-> t]
  ELSE IF orders_send(t, Order("Tx", path, blob)).ok
    THEN [ok |-> TRUE, err |-> NoFail, t |-> orders_send(t, Order("Tx", path, blob)).t]
    ELSE [ok |-> FALSE, err |-> Fail("SendFailure", <<>>), t |-> t]

\* TCP::listen; resolved: path.to_socket_addrs() yields an address
tcp_listen(t, path, resolved) ==
  IF ~resolved
    THEN [ok |-> FALSE, err |-> Fail("InvalidURL", <<>>), t |-> t]
  ELSE IF orders_send(t, Order("Rx", path, <<>>)).ok
    THEN [ok |-> TRUE, err |-> NoFail, t |-> orders_send(t, Order("Rx", path, <<>>)).t]
    ELSE [ok |-> FALSE, err |-> Fail("ListenFailure", <<>>), t |-> t]

\* TCP::receive reading the data channel without taking from it
tcp_receive_peek(t) ==
  IF t.worker = "exited"
    THEN [ok |-> FALSE, err |-> Fail("ReceiveFailure", <<>>), got |-> t.inbox,
          t |-> t]
    ELSE [ok |-> TRUE, err |-> NoFail, got |-> t.inbox, t |-> t]

\* TCP::receive: try_recv until the data channel is Empty, then Ok(received);
\* the channel is Disconnected, and the call fails, once it is empty and the
\* listener thread, which owns the sending end, has exited
tcp_receive(t) ==
  IF t.worker = "exited"
    THEN [ok |-> FALSE, err |-> Fail("ReceiveFailure", <<>>), got |-> t.inbox,
          t |-> [t EXCEPT !.inbox = <<>>]]
    ELSE [ok |-> TRUE, err |-> NoFail, got |-> t.inbox,
          t |-> [t EXCEPT !.inbox = <<>>]]

\* the listener thread's loop taking Quit for an order to send
worker_turn_deaf(t) ==
  IF t.worker # "running" THEN t
  ELSE IF t.orders = <<>> THEN t
  ELSE IF Head(t.orders).kind \in {"Quit", "Tx"}
    THEN [t EXCEPT !.orders = Tail(@)]
  ELSE [t EXCEPT !.orders = Tail(@), !.inbox = Append(@, RxData)]

\* one turn of the listener thread's loop on the TCP t: it takes the next
\* order, if there is one (with none it sleeps and t is as before)
worker_turn(t) ==
  IF t.worker # "running" THEN t
  ELSE IF t.orders = <<>> THEN t
  ELSE IF Head(t.orders).kind = "Quit"
    THEN [t EXCEPT !.orders = <<>>, !.worker = "exited"]
  ELSE IF Head(t.orders).kind = "Tx"
    THEN [t EXCEPT !.orders = Tail(@)]
  ELSE [t EXCEPT !.orders = Tail(@), !.inbox = Append(@, RxData)]

\* one turn of the loop of Drop::drop on the TCP t: send Quit; done once the
\* send fails
drop_turn(t) ==
  IF orders_send(t, Quit).ok
    THEN [done |-> FALSE, t |-> orders_send(t, Quit).t]
    ELSE [done |-> TRUE, t |-> t]

----------------------------------------------------------------------------
(* Mesher (mesher.rs), continued *)

RECURSIVE Buffered(_, _)
\* the raw packets buffered in the slots S of the registries tr
Buffered(tr, S) ==
  IF S = {} THEN 0
  ELSE LET x == CHOOSE y \in S : TRUE
       IN Len(tr[x[1]][x[2]].inbox) + Buffered(tr, S \ {x})

\* the raw packets the network holds, over all Transports
InFlight(tr) == Buffered(tr, Nodes \X Schemes)

\* the node a path's address names: "...:1" is node 1, "...:2" node 2, else 0
AddrNode(path) ==
  LET segs == splitn2(path) IN
  IF Len(segs) = 2 /\ segs[2] = <<49>> THEN 1
  ELSE IF Len(segs) = 2 /\ segs[2] = <<50>> THEN 2
  ELSE 0

\* what a successful Transport::send does to the world: the blob reaches the
\* buffer of the Transport of the same scheme at the addressed node, or is
\* lost when there is none or the network is full.
deliver(tr, scheme, path, blob) ==
  LET to == AddrNode(path) IN
  IF to \in Nodes /\ tr[to][scheme].up /\ InFlight(tr) < NetCapacity
    THEN [tr EXCEPT ![to][scheme].inbox = Append(@, blob)]
    ELSE tr

\* the send calls among calls
SendCount(calls) == Cardinality({i \in 1..Len(calls) : calls[i].method = "send"})

\* Transport::send of the Transport registered under scheme at node n, in the
\* registries tr. A network Transport fails with sf.kind when fails, and
\* otherwise hands the blob to the network; TCP does what tcp.rs does.
send(tr, n, scheme, path, blob, fails, sf) ==
  IF tr[n][scheme].kind = "tcp"
    THEN LET r == tcp_send(tr[n][scheme], path, blob) IN
         [ok |-> r.ok, err |-> r.err, tr |-> [tr EXCEPT ![n][scheme] = r.t]]
  ELSE IF fails
    THEN [ok |-> FALSE, err |-> Fail(sf.kind, <<>>), tr |-> tr]
    ELSE [ok |-> TRUE, err |-> NoFail, tr |-> deliver(tr, scheme, path, blob)]

\* Mesher::bounce at node n. st = [tr, calls]; sf = [at, kind] makes the
\* at-th send call of the operation fail with kind (at = 0: none fails) when
\* it is a network Transport's.
bounce(st, n, packet, path, sf) ==
  Only({IF ~g.ok
          THEN [ok |-> FALSE, err |-> g.err, tr |-> st.tr, calls |-> st.calls]
          ELSE Only({[ok |-> r.ok, err |-> r.err, tr |-> r.tr,
                      calls |-> Append(st.calls,
                                       Call("send", g.scheme, path, packet, r.ok))] :
                     r \in {send(st.tr, n, g.scheme, path, packet,
                                 SendCount(st.calls) + 1 = sf.at, sf)}}) :
        g \in {get_transport_for_path(st.tr[n], path)}})

\* Packet::from_signed_bytes: the framing and decryption of from_bytes plus a
\* signature check against the sender keys. No chunk of this model carries a
\* signature (nothing signs outbound chunks), so every chunk degrades to
\* Encrypted.
from_signed_bytes(packet, ks, senders) ==
  Only({IF d.ok
          THEN [ok |-> TRUE, val |-> [i \in 1..Len(d.val) |-> Encrypted(d.val[i])]]
          ELSE [ok |-> FALSE, val |-> "InvalidPacket"] :
        d \in {deserialize(packet)}})

RECURSIVE process_pieces(_, _, _, _, _, _, _)
\* the loop of Mesher::process_packet over the pieces dis[i..]
process_pieces(st, n, pkt, pieces, i, sf, messages) ==
  IF i > Len(pieces)
    THEN [ok |-> TRUE, err |-> NoFail, tr |-> st.tr, calls |-> st.calls,
          messages |-> messages]
  ELSE IF pieces[i].tag = "Message"
    THEN process_pieces(st, n, pkt, pieces, i + 1, sf,
                        Append(messages, pieces[i].body))
  ELSE IF pieces[i].tag = "Transport"
    THEN Only({IF b.ok
                 THEN process_pieces([tr |-> b.tr, calls |-> b.calls], n, pkt,
                                     pieces, i + 1, sf, messages)
                 ELSE [ok |-> FALSE, err |-> b.err, tr |-> b.tr,
                       calls |-> b.calls, messages |-> <<>>] :
               b \in {bounce(st, n, pkt, pieces[i].body, sf)}})
  ELSE process_pieces(st, n, pkt, pieces, i + 1, sf, messages)

\* Mesher::process_packet forwarding a re-serialization of the chunks as it
\* decrypted them, in place of the bytes it received
process_packet_reserialized(st, n, own, senders, pkt, sf) ==
  Only({IF d.ok
          THEN process_pieces(st, n,
                 serialize([i \in 1..Len(d.val) |->
                              IF d.val[i].tag = "Message" THEN <<0>> \o d.val[i].body
                              ELSE IF d.val[i].tag = "Transport" THEN <<1>> \o d.val[i].body
                              ELSE d.val[i].body]),
                 d.val, 1, sf, <<>>)
          ELSE [ok |-> FALSE, err |-> Fail("InvalidPacket", <<>>), tr |-> st.tr,
                calls |-> st.calls, messages |-> <<>>] :
        d \in {from_bytes(pkt, own)}})

\* Mesher::process_packet ignoring a forward that fails
process_packet_lenient(st, n, own, senders, pkt, sf) ==
  Only({IF d.ok
          THEN [process_pieces(st, n, pkt, d.val, 1, sf, <<>>)
                  EXCEPT !.ok = TRUE, !.err = NoFail]
          ELSE [ok |-> FALSE, err |-> Fail("InvalidPacket", <<>>), tr |-> st.tr,
                calls |-> st.calls, messages |-> <<>>] :
        d \in {from_bytes(pkt, own)}})

\* Mesher::process_packet at node n with keys own and sender keys senders
process_packet(st, n, own, senders, pkt, sf) ==
  Only({IF d.ok
          THEN process_pieces(st, n, pkt, d.val, 1, sf, <<>>)
          ELSE [ok |-> FALSE, err |-> Fail("InvalidPacket", <<>>), tr |-> st.tr,
                calls |-> st.calls, messages |-> <<>>] :
        d \in {IF senders = <<>>
                 THEN from_bytes(pkt, own)
                 ELSE from_signed_bytes(pkt, own, senders)}})

\* Transport::receive handing over an empty buffer as one raw packet with no
\* bytes
receive_phantom(t, fails, lose) ==
  IF t.kind = "tcp" THEN tcp_receive(t)
  ELSE IF fails
    THEN [ok |-> FALSE, err |-> Fail("ReceiveFailure", <<>>),
          got |-> IF lose THEN t.inbox ELSE <<>>,
          t |-> IF lose THEN [t EXCEPT !.inbox = <<>>] ELSE t]
    ELSE [ok |-> TRUE, err |-> NoFail,
          got |-> IF t.inbox = <<>> THEN <<<<>>>> ELSE t.inbox,
          t |-> [t EXCEPT !.inbox = <<>>]]

\* Transport::receive of the Transport t: Ok(the raw packets it had buffered)
\* or Err(ReceiveFailure), with the Transport after it and what the call took
\* out of the buffer. A network Transport fails when fails, keeping or losing
\* what it had buffered (lose); TCP does what tcp.rs does.
receive(t, fails, lose) ==
  IF t.kind = "tcp" THEN tcp_receive(t)
  ELSE IF fails
    THEN [ok |-> FALSE, err |-> Fail("ReceiveFailure", <<>>),
          got |-> IF lose THEN t.inbox ELSE <<>>,
          t |-> IF lose THEN [t EXCEPT !.inbox = <<>>] ELSE t]
    ELSE [ok |-> TRUE, err |-> NoFail, got |-> t.inbox,
          t |-> [t EXCEPT !.inbox = <<>>]]

RECURSIVE receive_all(_, _, _, _, _, _, _)
\* the first loop of Mesher::recv over the registry reg of one Mesher, in the
\* map's iteration order; the rf-th receive() is the one that fails when it is
\* a network Transport's (rf = 0: none).
receive_all(reg, order, i, rf, lose, packets, calls) ==
  IF i > Len(order)
    THEN [ok |-> TRUE, err |-> NoFail, reg |-> reg, packets |-> packets,
          calls |-> calls]
  ELSE Only({IF r.ok
               THEN receive_all([reg EXCEPT ![order[i]] = r.t], order, i + 1, rf,
                                lose, packets \o r.got,
                                Append(calls, Called("receive", order[i], <<>>,
                                                     <<>>, TRUE, r.got)))
               ELSE [ok |-> FALSE, err |-> r.err,
                     reg |-> [reg EXCEPT ![order[i]] = r.t],
                     packets |-> <<>>,
                     calls |-> Append(calls, Called("receive", order[i], <<>>,
                                                    <<>>, FALSE, r.got))] :
             r \in {receive(reg[order[i]], i = rf, lose)}})

RECURSIVE process_all_prepending(_, _, _, _, _, _, _, _)
\* the second loop of Mesher::recv putting the Messages of each packet in
\* front of those of the packets before it
process_all_prepending(st, n, own, senders, packets, j, sf, messages) ==
  IF j > Len(packets)
    THEN [ok |-> TRUE, err |-> NoFail, tr |-> st.tr, calls |-> st.calls,
          messages |-> messages]
  ELSE Only({IF r.ok
               THEN process_all_prepending([tr |-> r.tr, calls |-> r.calls], n,
                                           own, senders, packets, j + 1, sf,
                                           r.messages \o messages)
               ELSE [ok |-> FALSE, err |-> r.err, tr |-> r.tr, calls |-> r.calls,
                     messages |-> <<>>] :
             r \in {process_packet(st, n, own, senders, packets[j], sf)}})

RECURSIVE process_all(_, _, _, _, _, _, _, _)
\* the second loop of Mesher::recv over packets[j..]
process_all(st, n, own, senders, packets, j, sf, messages) ==
  IF j > Len(packets)
    THEN [ok |-> TRUE, err |-> NoFail, tr |-> st.tr, calls |-> st.calls,
          messages |-> messages]
  ELSE Only({IF r.ok
               THEN process_all([tr |-> r.tr, calls |-> r.calls], n, own, senders,
                                packets, j + 1, sf, messages \o r.messages)
               ELSE [ok |-> FALSE, err |-> r.err, tr |-> r.tr, calls |-> r.calls,
                     messages |-> <<>>] :
             r \in {process_packet(st, n, own, senders, packets[j], sf)}})

\* Mesher::recv handing what it drained back to the Transports when it fails
recv_restoring(tr, n, own, senders, order, rf, lose, sf) ==
  Only({IF got.ok
          THEN Only({IF p.ok THEN p
                     ELSE [p EXCEPT !.tr[n] =
                             [s \in Schemes |->
                                [p.tr[n][s] EXCEPT !.inbox = tr[n][s].inbox \o @]]] :
                     p \in {process_all([tr |-> [tr EXCEPT ![n] = got.reg],
                                          calls |-> got.calls],
                                         n, own, senders, got.packets, 1, sf,
                                         <<>>)}})
          ELSE [ok |-> FALSE, err |-> got.err, tr |-> [tr EXCEPT ![n] = got.reg],
                calls |-> got.calls, messages |-> <<>>] :
        got \in {receive_all(tr[n], order, 1, rf, lose, <<>>, <<>>)}})

\* Mesher::recv going round once more for what its own forwards brought back
recv_chasing(tr, n, own, senders, order, rf, lose, sf) ==
  Only({IF ~got.ok
          THEN [ok |-> FALSE, err |-> got.err, tr |-> [tr EXCEPT ![n] = got.reg],
                calls |-> got.calls, messages |-> <<>>]
          ELSE Only({IF ~first.ok THEN first
                     ELSE Only({process_all([tr |-> [first.tr EXCEPT ![n] = more.reg],
                                             calls |-> first.calls],
                                            n, own, senders, more.packets, 1, sf,
                                            first.messages) :
                                more \in {receive_all(first.tr[n], order, 1, 0,
                                                      FALSE, <<>>, <<>>)}}) :
                     first \in {process_all([tr |-> [tr EXCEPT ![n] = got.reg],
                                              calls |-> got.calls],
                                             n, own, senders, got.packets, 1, sf,
                                             <<>>)}}) :
        got \in {receive_all(tr[n], order, 1, rf, lose, <<>>, <<>>)}})

\* Mesher::recv processing what it drained before a receive call failed
recv_salvaging(tr, n, own, senders, order, rf, lose, sf) ==
  Only({IF got.ok
          THEN process_all([tr |-> [tr EXCEPT ![n] = got.reg], calls |-> got.calls],
                           n, own, senders, got.packets, 1, sf, <<>>)
          ELSE Only({[ok |-> FALSE, err |-> got.err, tr |-> p.tr,
                      calls |-> p.calls, messages |-> p.messages] :
                     p \in {process_all([tr |-> [tr EXCEPT ![n] = got.reg],
                                          calls |-> got.calls],
                                         n, own, senders,
                                         Concat([i \in 1..Len(got.calls) |->
                                                   got.calls[i].got]),
                                         1, sf, <<>>)}}) :
        got \in {receive_all(tr[n], order, 1, rf, lose, <<>>, <<>>)}})

\* Mesher::recv at node n: Ok(messages) or Err, with the registries after it
\* and the Transport calls it made
recv(tr, n, own, senders, order, rf, lose, sf) ==
  Only({IF got.ok
          THEN process_all([tr |-> [tr EXCEPT ![n] = got.reg], calls |-> got.calls],
                           n, own, senders, got.packets, 1, sf, <<>>)
          ELSE [ok |-> FALSE, err |-> got.err, tr |-> [tr EXCEPT ![n] = got.reg],
                calls |-> got.calls, messages |-> <<>>] :
        got \in {receive_all(tr[n], order, 1, rf, lose, <<>>, <<>>)}})

\* Mesher::launch processing the packet at the launching node before it sends
launch_processed(tr, n, packet, first_hop, sf) ==
  Only({bounce([tr |-> r.tr, calls |-> r.calls], n, into_bytes(packet),
               first_hop, sf) :
        r \in {process_packet([tr |-> tr, calls |-> <<>>], n, own_skeys[n],
                               sender_pkeys[n], into_bytes(packet), sf)}})

\* Mesher::launch at node n
launch(tr, n, packet, first_hop, sf) ==
  Only({bounce(st, n, bytes, first_hop, sf) :
        st \in {[tr |-> tr, calls |-> <<>>]}, bytes \in {into_bytes(packet)}})

\* Transport::listen of the Transport t. A network Transport fails with
\* ListenFailure when lf; for TCP lf says that the address does not resolve.
listen(t, path, lf) ==
  IF t.kind = "tcp" THEN tcp_listen(t, path, ~lf)
  ELSE IF lf
    THEN [ok |-> FALSE, err |-> Fail("ListenFailure", <<>>), t |-> t]
    ELSE [ok |-> TRUE, err |-> NoFail, t |-> t]

\* Mesher::listen_on on the registry reg
listen_on(reg, path, lf) ==
  LET g == get_transport_for_path(reg, path) IN
  IF ~g.ok THEN [ok |-> FALSE, err |-> g.err, calls |-> <<>>, reg |-> reg]
  ELSE LET r == listen(reg[g.scheme], path, lf) IN
       [ok |-> r.ok, err |-> r.err,
        calls |-> <<Call("listen", g.scheme, path, <<>>, r.ok)>>,
        reg |-> [reg EXCEPT ![g.scheme] = r.t]]

\* Mesher::add_transport keeping the Transport already registered
add_transport_keep(reg, scheme, made) ==
  IF made.ok
    THEN [ok |-> TRUE, err |-> NoFail,
          reg |-> IF reg[scheme].up THEN reg ELSE [reg EXCEPT ![scheme] = made.val],
          old |-> reg[scheme],
          calls |-> <<Call("new", scheme, <<>>, <<>>, TRUE)>> \o
                    (IF reg[scheme].up
                       THEN <<Call("drop", scheme, <<>>, <<>>, TRUE)>>
                       ELSE <<>>)]
    ELSE [ok |-> FALSE, err |-> made.err, reg |-> reg, old |-> NoTransport,
          calls |-> <<Call("new", scheme, <<>>, <<>>, FALSE)>>]

\* Mesher::add_transport on the registry reg; made is the result of
\* T::new(scheme). The insert hands back the Transport it replaces (old),
\* which is dropped.
add_transport(reg, scheme, made) ==
  IF made.ok
    THEN [ok |-> TRUE, err |-> NoFail,
          reg |-> [reg EXCEPT ![scheme] = made.val],
          old |-> reg[scheme],
          calls |-> <<Call("new", scheme, <<>>, <<>>, TRUE)>> \o
                    (IF reg[scheme].up
                       THEN <<Call("drop", scheme, <<>>, <<>>, TRUE)>>
                       ELSE <<>>)]
    ELSE [ok |-> FALSE, err |-> made.err, reg |-> reg, old |-> NoTransport,
          calls |-> <<Call("new", scheme, <<>>, <<>>, FALSE)>>]

----------------------------------------------------------------------------
(* The network of Meshers: what its users and its environment can do        *)

\* two payloads
D == <<7>>
E == <<8>>

\* "a:2": the Transport of scheme a at node 2;  "b:1": that of scheme b at node 1
PathA2 == <<97, Colon, 50>>
PathB1 == <<98, Colon, 49>>
\* "a:1": that of scheme a at node 1
PathA1 == <<97, Colon, 49>>
\* "c:1": a scheme nobody registers;  "a": no colon at all;  "a::1": two colons
PathC1 == <<99, Colon, 49>>
PathNoColon == <<97>>
PathTwoColons == <<97, Colon, Colon, 49>>

NetPaths == {PathA1, PathA2, PathB1, PathC1, PathNoColon, PathTwoColons}

\* the registrations the users make: node 1 under "a" and "b", node 2 under "a"
Slots == {<<1, <<97>>>>, <<1, <<98>>>>, <<2, <<97>>>>}

\* the packets the users build and launch:
\*   a hop for node 1 to node 2, then a message for node 2;
\*   two messages for node 1, then a hop for node 1 back to itself over "b";
\*   two hops for node 1, to node 2 over "a" and to itself over "b";
PacketRelay == add_message(add_hop(<<>>, PathA2, pkey(1)), D, pkey(2))
PacketRelayEmpty == add_message(add_hop(<<>>, PathA2, pkey(1)), <<>>, pkey(2))
\*   a hop for node 1 along a path without a colon
PacketNoColon == add_hop(<<>>, PathNoColon, pkey(1))
PacketMsgs ==
  add_hop(add_message(add_message(<<>>, D, pkey(1)), E, pkey(1)), PathB1, pkey(1))
PacketFork == add_hop(add_hop(<<>>, PathA2, pkey(1)), PathB1, pkey(1))

NetPackets ==
  {PacketRelay, PacketRelayEmpty, PacketMsgs, PacketFork, PacketNoColon}

\* raw bytes a third party sends: unparsable framing, and a blob that key 1
\* opens to an unknown tag and key 2 does not open
ArrivingRaws == {<<>>, <<1, 2, 11, 9>>}

\* how a Transport may fail a send: the at-th send call of an operation fails
\* with kind; at = 0: no send fails
NoSendFail == [at |-> 0, kind |-> "none"]
SendFails(most) ==
  {NoSendFail} \cup [at : 1..most, kind : {"SendFailure", "InvalidURL"}]

\* the orders in which a map holding the keys S may iterate
Perms(S) ==
  {f \in [1..Cardinality(S) -> S] : \A i, j \in DOMAIN f : i # j => f[i] # f[j]}

Registered(reg) == {s \in Schemes : reg[s].up}

\* the outcome of an operation as its caller sees it: the operation, its
\* path and packet arguments, its result, and the Transport calls it made
Outcome(op, n, path, packet, r, messages) ==
  [op |-> op, node |-> n, path |-> path, packet |-> packet, ok |-> r.ok,
   err |-> r.err, messages |-> messages, calls |-> r.calls]

\* no operation has returned a result that its caller has not yet taken
NoOutcome ==
  [op |-> "none", node |-> 0, path |-> <<>>, packet |-> <<>>, ok |-> TRUE,
   err |-> NoFail, messages |-> <<>>, calls |-> <<>>]

\* Mesher::signed leaving out the assertion
signed_unchecked(own, senders) ==
  [ok |-> TRUE, own_skeys |-> own, sender_pkeys |-> senders]

\* Mesher::signed(own_skeys, sender_pkeys): the Mesher, or a panic (ok is
\* FALSE) when sender_pkeys is empty
signed(own, senders) ==
  IF senders = <<>>
    THEN [ok |-> FALSE, own_skeys |-> <<>>, sender_pkeys |-> <<>>]
    ELSE [ok |-> TRUE, own_skeys |-> own, sender_pkeys |-> senders]

\* Mesher::unsigned(own_skeys)
unsigned(own) == [ok |-> TRUE, own_skeys |-> own, sender_pkeys |-> <<>>]

\* the secret keys each node's user holds: node 1 keys 3 and 1, node 2 key 2
OwnKeys == <<<<3, 1>>, <<2>>>>

\* Mesher::unsigned(own_skeys), once per node
MesherInit ==
  /\ own_skeys = [n \in Nodes |-> unsigned(OwnKeys[n]).own_skeys]
  /\ sender_pkeys = [n \in Nodes |-> unsigned(OwnKeys[n]).sender_pkeys]
  /\ mode = [n \in Nodes |-> "unsigned"]
  /\ transports = [n \in Nodes |-> [s \in Schemes |-> NoTransport]]
  /\ last = NoOutcome
  /\ dropping = NoTransport

\* m.add_transport::<T>(scheme) at node n; made is the result of T::new(scheme).
\* A TCP that is replaced starts its Drop::drop, and the call returns when
\* that is over.
AddTransport(n, scheme, made) ==
  /\ last = NoOutcome
  /\ \E r \in {add_transport(transports[n], scheme, made)} :
       /\ transports' = [transports EXCEPT ![n] = r.reg]
       /\ dropping' = IF r.old.kind = "tcp" THEN r.old ELSE dropping
       /\ last' = Outcome("add_transport", n, <<>>, <<>>, r, <<>>)
       /\ UNCHANGED <<own_skeys, sender_pkeys, mode>>
       /\ UNCHANGED packetVars

\* m.listen_on(path) at node n
ListenOn(n, path, lf) ==
  /\ last = NoOutcome
  /\ \E r \in {listen_on(transports[n], path, lf)} :
       /\ transports' = [transports EXCEPT ![n] = r.reg]
       /\ last' = Outcome("listen_on", n, path, <<>>, r, <<>>)
       /\ UNCHANGED <<own_skeys, sender_pkeys, mode, dropping>>
       /\ UNCHANGED packetVars

\* m.launch(packet, first_hop) at node n
Launch(n, packet, first_hop, sf) ==
  /\ last = NoOutcome
  /\ \E r \in {launch(transports, n, packet, first_hop, sf)} :
       /\ transports' = r.tr
       /\ last' = Outcome("launch", n, first_hop, packet, r, <<>>)
       /\ UNCHANGED <<own_skeys, sender_pkeys, mode, dropping>>
       /\ UNCHANGED packetVars

\* m.recv() at node n
Recv(n, order, rf, lose, sf) ==
  /\ last = NoOutcome
  /\ \E r \in {recv(transports, n, own_skeys[n], sender_pkeys[n], order, rf,
                   lose, sf)} :
       /\ transports' = r.tr
       /\ last' = Outcome("recv", n, <<>>, <<>>, r, r.messages)
       /\ UNCHANGED <<own_skeys, sender_pkeys, mode, dropping>>
       /\ UNCHANGED packetVars

\* the caller takes the result of the operation that returned
Return ==
  /\ last # NoOutcome
  /\ dropping = NoTransport
  /\ last' = NoOutcome
  /\ UNCHANGED <<own_skeys, sender_pkeys, mode, transports, dropping>>
  /\ UNCHANGED packetVars

\* a third party's bytes reach the Transport of scheme s at node n
Arrive(n, s, raw) ==
  /\ last = NoOutcome
  /\ transports[n][s].up
  /\ InFlight(transports) < NetCapacity
  /\ transports' = [transports EXCEPT ![n][s].inbox = Append(@, raw)]
  /\ UNCHANGED <<own_skeys, sender_pkeys, mode, last, dropping>>
  /\ UNCHANGED packetVars

\* some call of recv at node n
AnyRecv(n) ==
  \E order \in Perms(Registered(transports[n])) :
    \E rf \in 0..Len(order), lose \in BOOLEAN, sf \in SendFails(NetCapacity) :
      (rf = 0 => ~lose) /\ Recv(n, order, rf, lose, sf)

\* some call of launch at node n
AnyLaunch(n) ==
  \E pkt \in NetPackets, p \in NetPaths, sf \in SendFails(1) : Launch(n, pkt, p, sf)

Next ==
  \/ \E x \in Slots, built \in BOOLEAN :
       AddTransport(x[1], x[2], new_transport(x[2], built))
  \/ \E n \in Nodes, p \in NetPaths, lf \in BOOLEAN : ListenOn(n, p, lf)
  \/ \E n \in Nodes : AnyLaunch(n)
  \/ \E n \in Nodes : AnyRecv(n)
  \/ \E x \in Slots, raw \in ArrivingRaws : Arrive(x[1], x[2], raw)
  \/ Return

----------------------------------------------------------------------------
(* One Mesher over TCP Transports *)

\* "a::1", "b::1", "a:1", "a"
TcpPaths == {<<97, Colon, Colon, 49>>, <<98, Colon, Colon, 49>>, <<97, Colon, 49>>, <<97>>}

\* the channels of the TCP registered under scheme s have room
Room(s) ==
  Len(transports[1][s].orders) + Len(transports[1][s].inbox) < MaxOrders

\* the listener thread of the TCP registered under scheme s takes an order
Listener(s) ==
  /\ transports[1][s].kind = "tcp"
  /\ transports[1][s].worker = "running"
  /\ transports[1][s].orders # <<>>
  /\ transports' = [transports EXCEPT ![1][s] = worker_turn(@)]
  /\ UNCHANGED <<own_skeys, sender_pkeys, mode, last, dropping>>
  /\ UNCHANGED packetVars

\* the listener thread of the TCP that is being dropped takes an order
DroppedListener ==
  /\ dropping.up
  /\ dropping.worker = "running"
  /\ dropping.orders # <<>>
  /\ dropping' = worker_turn(dropping)
  /\ UNCHANGED <<own_skeys, sender_pkeys, mode, last, transports>>
  /\ UNCHANGED packetVars

\* one turn of the loop of Drop::drop
DropTurn ==
  /\ dropping.up
  /\ Len(dropping.orders) <= MaxOrders
  /\ dropping' = IF drop_turn(dropping).done THEN NoTransport
                                              ELSE drop_turn(dropping).t
  /\ UNCHANGED <<own_skeys, sender_pkeys, mode, last, transports>>
  /\ UNCHANGED packetVars

NextTCP ==
  \/ \E s \in Schemes, spawned \in BOOLEAN : AddTransport(1, s, tcp_new(s, spawned))
  \/ \E p \in TcpPaths, lf \in BOOLEAN :
       (\A s \in Schemes : Room(s)) /\ ListenOn(1, p, lf)
  \/ \E pkt \in NetPackets, p \in TcpPaths :
       (\A s \in Schemes : Room(s)) /\ Launch(1, pkt, p, NoSendFail)
  \/ \E order \in Perms(Registered(transports[1])) :
       Recv(1, order, 0, FALSE, NoSendFail)
  \/ \E s \in Schemes : Listener(s)
  \/ DroppedListener
  \/ DropTurn
  \/ Return

----------------------------------------------------------------------------
(* Meshers from their construction on *)

\* the sender keys a user may hand to Mesher::signed
SenderLists == {<<>>, <<pkey(2), pkey(3)>>}

\* no Mesher is constructed yet
ModesInit ==
  /\ own_skeys = [n \in Nodes |-> <<>>]
  /\ sender_pkeys = [n \in Nodes |-> <<>>]
  /\ mode = [n \in Nodes |-> "none"]
  /\ transports = [n \in Nodes |-> [s \in Schemes |-> NoTransport]]
  /\ last = NoOutcome
  /\ dropping = NoTransport
  /\ chunks = <<>> /\ wire = <<>> /\ keys = <<>> /\ stage = "idle"
  /\ dis = [ok |-> FALSE, val |-> "none"]

\* node n's user calls Mesher::unsigned(own)
NewUnsigned(n, own) ==
  /\ mode[n] = "none"
  /\ last = NoOutcome
  /\ own_skeys' = [own_skeys EXCEPT ![n] = unsigned(own).own_skeys]
  /\ sender_pkeys' = [sender_pkeys EXCEPT ![n] = unsigned(own).sender_pkeys]
  /\ mode' = [mode EXCEPT ![n] = "unsigned"]
  /\ UNCHANGED <<transports, last, dropping>>
  /\ UNCHANGED packetVars

\* node n's user calls Mesher::signed(own, senders)
NewSigned(n, own, senders) ==
  /\ mode[n] = "none"
  /\ last = NoOutcome
  /\ own_skeys' = [own_skeys EXCEPT ![n] = signed(own, senders).own_skeys]
  /\ sender_pkeys' = [sender_pkeys EXCEPT ![n] = signed(own, senders).sender_pkeys]
  /\ mode' = [mode EXCEPT ![n] = IF signed(own, senders).ok THEN "signed"
                                                             ELSE "failed"]
  /\ UNCHANGED <<transports, last, dropping>>
  /\ UNCHANGED packetVars

\* node n has a Mesher
Constructed(n) == mode[n] \in {"unsigned", "signed"}

NextModes ==
  \/ \E n \in Nodes : NewUnsigned(n, OwnKeys[n])
  \/ \E n \in Nodes, senders \in SenderLists : NewSigned(n, OwnKeys[n], senders)
  \/ \E x \in Slots, built \in BOOLEAN :
       Constructed(x[1]) /\ AddTransport(x[1], x[2], new_transport(x[2], built))
  \/ \E n \in Nodes, p \in NetPaths, lf \in BOOLEAN :
       Constructed(n) /\ ListenOn(n, p, lf)
  \/ \E n \in Nodes, pkt \in NetPackets, p \in NetPaths :
       Constructed(n) /\ Launch(n, pkt, p, NoSendFail)
  \/ \E n \in Nodes : \E order \in Perms(Registered(transports[n])) :
       Constructed(n) /\ Recv(n, order, 0, FALSE, NoSendFail)
  \/ Return

----------------------------------------------------------------------------
(* Specifications *)

\* the packet pipeline alone
PacketStart == PacketInit /\ MesherInit
PacketSpec == PacketStart /\ [][PacketNext]_vars

Init ==
  /\ MesherInit
  /\ chunks = <<>> /\ wire = <<>> /\ keys = <<>> /\ stage = "idle"
  /\ dis = [ok |-> FALSE, val |-> "none"]

\* the network of Meshers
Spec == Init /\ [][Next]_vars

\* one Mesher over TCP Transports
SpecTCP == Init /\ [][NextTCP]_vars

\* one Mesher over TCP Transports, with threads that keep running: the
\* listener thread of a dropped TCP polls its orders in a loop that only a
\* return leaves (tcp.rs:33-47), and Drop::drop retries in a loop that only
\* a failed send leaves (tcp.rs:93-100)
SpecTCPFair ==
  Init /\ [][NextTCP]_vars /\ WF_vars(DroppedListener) /\ WF_vars(DropTurn)

\* the network of Meshers from their construction on
SpecModes == ModesInit /\ [][NextModes]_vars

----------------------------------------------------------------------------
(* Properties *)

\* the public halves of the keys ks
PublicOf(ks) == {pkey(ks[i]) : i \in DOMAIN ks}

\* the send calls and the receive calls among calls
Sends(calls) == SelectSeq(calls, LAMBDA c : c.method = "send")
Receives(calls) == SelectSeq(calls, LAMBDA c : c.method = "receive")

\* the raw packets the receive calls among calls returned, in order
Drained(calls) ==
  Concat([i \in 1..Len(Receives(calls)) |-> Receives(calls)[i].got])

\* every receive call among calls returned Ok, and no send call failed
AllReceived(calls) == \A i \in 1..Len(calls) : calls[i].method = "receive" => calls[i].ok
AllSent(calls) == \A i \in 1..Len(calls) : calls[i].method = "send" => calls[i].ok

\* path has a colon;  the text before the first colon of a path that has one
HasColon(path) == \E i \in 1..Len(path) : path[i] = Colon
SchemeOf(path) ==
  CHOOSE q \in {SubSeq(path, 1, k) : k \in 0..Len(path)} :
    /\ ~HasColon(q)
    /\ Len(q) < Len(path)
    /\ path[Len(q) + 1] = Colon

\* C2: a packet built from N chunks, serialized and then disassembled with a
\* key list holding the secret half of every target key comes back as N
\* chunks, in the same order, each of the variant and with the payload or
\* path that was added.
RoundTrip ==
  (stage = "done" /\ \A i \in 1..Len(chunks) : chunks[i][2] \in PublicOf(keys))
    => /\ dis.ok
       /\ Len(dis.val) = Len(chunks)
       /\ \A i \in 1..Len(chunks) : dis.val[i] = chunks[i][1]

\* a hop for one key and a message for another came back from the wire
RoundTripWitness ==
  /\ stage = "done"
  /\ Len(chunks) = 2
  /\ chunks[1][1].tag = "Transport" /\ chunks[2][1].tag = "Message"
  /\ chunks[1][2] # chunks[2][2]
  /\ \A i \in 1..Len(chunks) : chunks[i][2] \in PublicOf(keys)
  /\ dis.ok /\ Len(dis.val) = 2

\* a relay packet: a hop for node 1 to node 2, then a message for node 2
Relays == {<<PacketRelay, D>>, <<PacketRelayEmpty, <<>>>>}

\* C1: when node 1's recv drains exactly the packet add_hop("a:2", k1.public);
\* add_message(data, k2.public) and the send it asks for succeeds, it returns
\* no Message and sends exactly those bytes to "a:2" over the Transport of
\* scheme a; when node 2's recv drains exactly that packet, it returns the one
\* Message data and sends nothing.
MultiHopForward ==
  \A x \in Relays :
    (/\ last.op = "recv"
     /\ AllReceived(last.calls)
     /\ Drained(last.calls) = <<into_bytes(x[1])>>)
      => /\ (last.node = 1 /\ transports[1][<<97>>].up /\ AllSent(last.calls))
              => /\ last.ok
                 /\ last.messages = <<>>
                 /\ Sends(last.calls)
                       = <<Call("send", <<97>>, PathA2, into_bytes(x[1]), TRUE)>>
         /\ last.node = 2
              => /\ last.ok
                 /\ last.messages = <<x[2]>>
                 /\ Sends(last.calls) = <<>>

\* node 1 has forwarded the relay packet and node 2 now holds the same bytes
MultiHopForwardWitness ==
  /\ last.op = "recv" /\ last.node = 1 /\ last.ok
  /\ Drained(last.calls) = <<into_bytes(PacketRelay)>>
  /\ Len(Sends(last.calls)) = 1
  /\ transports[2][<<97>>].inbox = <<into_bytes(PacketRelay)>>

\* the packets of the users that serialize to raw
Built(raw) == {pkt \in NetPackets : into_bytes(pkt) = raw}

\* the (chunk, key) pairs of the packet behind raw whose key is one of node n's
OwnChunks(n, raw) ==
  IF Built(raw) = {} THEN <<>>
  ELSE SelectSeq(CHOOSE pkt \in Built(raw) : TRUE,
                 LAMBDA e : e[2] \in PublicOf(own_skeys[n]))

\* the (path, bytes) pairs node n has to send for raw: one per hop addressed
\* to one of its keys, in packet order, each with the bytes as received
ExpectedForwards(n, raw) ==
  LET hops == SelectSeq(OwnChunks(n, raw), LAMBDA e : e[1].tag = "Transport")
  IN [i \in 1..Len(hops) |-> <<hops[i][1].body, raw>>]

\* C3 (chunks): a chunk sealed for key A comes out of from_bytes as
\* Encrypted(its ciphertext) under every key list without A's secret half.
\* Stated of every raw packet buffered when a Mesher is about to act.
KeyIsolationChunks ==
  last = NoOutcome =>
    \A x \in Nodes \X Schemes :
      \A raw \in {transports[x[1]][x[2]].inbox[j] :
                    j \in 1..Len(transports[x[1]][x[2]].inbox)} :
        \A pkt \in Built(raw), ks \in KeyLists :
          \A dis_ks \in {from_bytes(raw, ks)} :
            \A i \in 1..Len(pkt) :
              pkt[i][2] \notin PublicOf(ks)
                => /\ dis_ks.ok
                   /\ dis_ks.val[i]
                        = Encrypted(key_encrypt(pkt[i][2],
                            (IF pkt[i][1].tag = "Message" THEN <<0>> ELSE <<1>>)
                              \o pkt[i][1].body))

\* C3 (recv): the Messages recv returns and the sends it makes are no more
\* than the chunks of the drained packets that are sealed for an own key.
KeyIsolationRecv ==
  last.op = "recv"
    => Len(last.messages) + Len(Sends(last.calls))
         <= Len(Concat([j \in 1..Len(Drained(last.calls)) |->
                          OwnChunks(last.node, Drained(last.calls)[j])]))

\* C3: key isolation, of disassembly and of recv
KeyIsolation == KeyIsolationChunks /\ KeyIsolationRecv

\* node 2 drained packets of which no chunk is sealed for its key: it
\* returned nothing and sent nothing
KeyIsolationWitness ==
  /\ last.op = "recv" /\ last.node = 2 /\ last.ok
  /\ Len(Drained(last.calls)) = 2
  /\ \A j \in 1..2 : Built(Drained(last.calls)[j]) # {}
  /\ \A j \in 1..2 : OwnChunks(2, Drained(last.calls)[j]) = <<>>
  /\ last.messages = <<>> /\ Sends(last.calls) = <<>>

\* C4: the sends of a successful recv are, packet by packet in drain order,
\* one per hop addressed to an own key, in packet order, each carrying the
\* bytes as received, to the Transport registered under the scheme of the
\* hop's path.
ForwardsUntouched ==
  (last.op = "recv" /\ last.ok)
    => LET S == Sends(last.calls)
           Dr == Drained(last.calls)
       IN /\ [i \in 1..Len(S) |-> <<S[i].path, S[i].blob>>]
               = Concat([j \in 1..Len(Dr) |-> ExpectedForwards(last.node, Dr[j])])
          /\ \A i \in 1..Len(S) :
               /\ S[i].ok
               /\ S[i].scheme \in Registered(transports[last.node])
               /\ HasColon(S[i].path) => S[i].scheme = SchemeOf(S[i].path)

\* node 1 drained the packet with two hops and sent it twice, over two schemes
ForwardsUntouchedWitness ==
  /\ last.op = "recv" /\ last.node = 1 /\ last.ok
  /\ Len(Sends(last.calls)) = 2
  /\ Sends(last.calls)[1].scheme # Sends(last.calls)[2].scheme
  /\ Sends(last.calls)[1].blob = into_bytes(PacketFork)

\* a hop addressed to node n in the raw packets Dr names a scheme that node n
\* has no Transport for
UnresolvableHop(n, Dr) ==
  \E j \in 1..Len(Dr) :
    \E i \in 1..Len(ExpectedForwards(n, Dr[j])) :
      LET path == ExpectedForwards(n, Dr[j])[i][1] IN
      HasColon(path) /\ SchemeOf(path) \notin Registered(transports[n])

\* C5: a recv in which a forward fails (a send fails, or a hop names an
\* unregistered scheme) returns an error and no Message; after a failed send
\* the error is the Transport's.
NoPartialSuccess ==
  last.op = "recv"
    => /\ (~AllSent(last.calls) \/ UnresolvableHop(last.node, Drained(last.calls)))
            => ~last.ok /\ last.messages = <<>>
       /\ ~AllSent(last.calls) => last.err.kind \in {"SendFailure", "InvalidURL"}
       /\ (~last.ok /\ last.err.kind = "UnregisteredScheme")
            => last.err.detail \notin Registered(transports[last.node])

\* node 1 drained the packet with two messages for it and a hop over scheme
\* b, which it has not registered: the call failed and returned neither message
NoPartialSuccessWitness ==
  /\ last.op = "recv" /\ last.node = 1 /\ ~last.ok
  /\ last.err = Fail("UnregisteredScheme", <<98>>)
  /\ Drained(last.calls) = <<into_bytes(PacketMsgs)>>
  /\ last.messages = <<>>

\* C6: a path without a colon is rejected with InvalidURL, by listen_on, by
\* launch, and by recv for the path of a hop.
NoColonRejected ==
  /\ (last.op \in {"listen_on", "launch"} /\ ~HasColon(last.path))
       => ~last.ok /\ last.err.kind = "InvalidURL"
  /\ (/\ last.op = "recv" /\ last.node = 1 /\ AllReceived(last.calls)
      /\ Drained(last.calls) = <<into_bytes(PacketNoColon)>>)
       => ~last.ok /\ last.err.kind = "InvalidURL"

\* C7: listen_on of a path with a colon fails with UnregisteredScheme(the text
\* before the first colon) and calls no Transport when nothing is registered
\* under that scheme, and otherwise makes exactly one call, listen(path), of
\* the Transport registered under it.
SchemeResolution ==
  (last.op = "listen_on" /\ HasColon(last.path))
    => IF SchemeOf(last.path) \in Registered(transports[last.node])
         THEN /\ last.calls
                   = <<Call("listen", SchemeOf(last.path), last.path, <<>>, last.ok)>>
              /\ ~last.ok => last.err.kind = "ListenFailure"
         ELSE /\ ~last.ok
              /\ last.err = Fail("UnregisteredScheme", SchemeOf(last.path))
              /\ last.calls = <<>>

\* listen_on("a::1") reached the Transport registered under "a"
SchemeResolutionWitness ==
  /\ last.op = "listen_on" /\ last.path = PathTwoColons /\ last.ok
  /\ Len(last.calls) = 1

\* recv() is called at a Mesher none of whose registered Transports has
\* anything buffered
IdleRecv ==
  /\ last = NoOutcome
  /\ last'.op = "recv"
  /\ \A s \in Schemes : transports[last'.node][s].inbox = <<>>

\* C8 as stated: whenever no registered Transport has buffered data, recv()
\* returns an empty Message list, never an error, and performs no send.
IdleDrainNeverFails ==
  [][IdleRecv => /\ last'.ok
                 /\ last'.messages = <<>>
                 /\ Sends(last'.calls) = <<>>]_vars

\* C8: whenever no registered Transport has buffered data, recv() performs no
\* send and returns no Message; it returns Ok with an empty list when every
\* receive() succeeds (and when no Transport is registered), and the
\* ReceiveFailure of the first receive() that fails otherwise.
IdleDrain ==
  [][IdleRecv => /\ last'.messages = <<>>
                 /\ Sends(last'.calls) = <<>>
                 /\ last'.ok = (\A i \in 1..Len(last'.calls) : last'.calls[i].ok)
                 /\ ~last'.ok => /\ last'.err.kind = "ReceiveFailure"
                                 /\ ~last'.calls[Len(last'.calls)].ok
                 /\ \A i \in 1..Len(last'.calls) :
                      /\ last'.calls[i].method = "receive"
                      /\ last'.calls[i].got = <<>>
                 /\ \A x \in Nodes \X Schemes :
                      transports'[x[1]][x[2]] = transports[x[1]][x[2]]]_vars

\* recv() at a Mesher with two registered Transports, both with nothing
\* buffered, returned Ok with no Message
IdleDrainWitness ==
  /\ last.op = "recv" /\ last.ok /\ last.messages = <<>>
  /\ Len(last.calls) = 2
  /\ \A i \in 1..2 : last.calls[i].method = "receive" /\ last.calls[i].got = <<>>

\* C9: add_transport(scheme) whose Transport is built leaves that Transport,
\* with nothing buffered, as the one registered under scheme, releases the one
\* it replaces, and touches no other entry; one whose Transport fails to build
\* returns SetupFailure and leaves the registry as it was.
RegistryLatestWins ==
  [][(last = NoOutcome /\ last'.op = "add_transport")
       => LET n == last'.node
              s == last'.calls[1].scheme
          IN /\ last'.calls[1].method = "new"
             /\ last'.ok = last'.calls[1].ok
             /\ last'.ok
                  => /\ transports'[n][s] = new_transport(s, TRUE).val
                     /\ \A x \in Nodes \X Schemes :
                          x # <<n, s>> => transports'[x[1]][x[2]] = transports[x[1]][x[2]]
                     /\ Len(last'.calls) = (IF transports[n][s].up THEN 2 ELSE 1)
                     /\ Len(last'.calls) = 2
                          => last'.calls[2] = Call("drop", s, <<>>, <<>>, TRUE)
             /\ ~last'.ok
                  => /\ transports' = transports
                     /\ last'.err.kind = "SetupFailure"
                     /\ Len(last'.calls) = 1]_vars

\* a registration replaced and released an earlier one
RegistryLatestWinsWitness ==
  /\ last.op = "add_transport" /\ last.ok
  /\ Len(last.calls) = 2 /\ last.calls[2].method = "drop"

\* C10: launch(packet, first_hop) returns no Message and calls nothing but, at
\* most once, send(first_hop, into_bytes(packet)) of the Transport registered
\* under first_hop's scheme; it returns Ok exactly when that send did; and
\* it changes no Transport's buffer, but for the one buffer that the network
\* delivers these bytes to.
LaunchOnlySends ==
  [][(last = NoOutcome /\ last'.op = "launch")
       => \A n \in {last'.node}, pkt \in {last'.packet}, p \in {last'.path} :
          \A sf \in SendFails(1) :
            Launch(n, pkt, p, sf)
              => /\ last'.messages = <<>>
                 /\ Len(last'.calls) <= 1
                 /\ \A i \in 1..Len(last'.calls) :
                      /\ last'.calls[i].method = "send"
                      /\ last'.calls[i].path = p
                      /\ last'.calls[i].blob = into_bytes(pkt)
                      /\ last'.calls[i].scheme \in Registered(transports[n])
                      /\ HasColon(p) => last'.calls[i].scheme = SchemeOf(p)
                 /\ last'.ok <=> (Len(last'.calls) = 1 /\ last'.calls[1].ok)
                 /\ \E y \in Nodes \X Schemes :
                      /\ \A x \in Nodes \X Schemes :
                           x # y => transports'[x[1]][x[2]] = transports[x[1]][x[2]]
                      /\ \/ transports'[y[1]][y[2]] = transports[y[1]][y[2]]
                         \/ /\ last'.ok
                            /\ transports'[y[1]][y[2]]
                                 = [transports[y[1]][y[2]] EXCEPT
                                      !.inbox = Append(@, into_bytes(pkt))]]_vars

\* node 1 launched, to node 2, the packet whose two hops are addressed to
\* node 1 itself: one send, nothing followed
LaunchOnlySendsWitness ==
  /\ last.op = "launch" /\ last.node = 1 /\ last.ok
  /\ last.path = PathA2
  /\ last.calls = <<Call("send", <<97>>, PathA2, into_bytes(PacketFork), TRUE)>>
  /\ transports[1][<<98>>].up /\ transports[1][<<98>>].inbox = <<>>

\* the payloads of the Message chunks of the packet behind raw that are sealed
\* for a key of node n, in packet order
OwnMessages(n, raw) ==
  LET msgs == SelectSeq(OwnChunks(n, raw), LAMBDA e : e[1].tag = "Message")
  IN [i \in 1..Len(msgs) |-> msgs[i][1].body]

\* every buffered raw packet that a user built disassembles, at every node, to
\* as many chunks as were added, the i-th being the i-th added (opened when
\* it is sealed for a key of the node, and Encrypted otherwise)
OrderAtDisassembly ==
  last = NoOutcome =>
    \A x \in Nodes \X Schemes :
      \A raw \in {transports[x[1]][x[2]].inbox[j] :
                    j \in 1..Len(transports[x[1]][x[2]].inbox)} :
        \A pkt \in Built(raw), n \in Nodes :
          \A d \in {from_bytes(raw, own_skeys[n])} :
            /\ d.ok
            /\ Len(d.val) = Len(pkt)
            /\ \A i \in 1..Len(pkt) :
                 d.val[i] = IF pkt[i][2] \in PublicOf(own_skeys[n])
                              THEN pkt[i][1]
                              ELSE Encrypted(encrypt(pkt[i][1], pkt[i][2]))

\* C11: the Messages of a successful recv are those of the packets it drained,
\* packet after packet in the order the receive calls returned them, and
\* within a packet in the order of its chunks; and chunks disassemble in the
\* order they were added.
OrderPreserved ==
  /\ OrderAtDisassembly
  /\ (last.op = "recv" /\ last.ok)
       => last.messages
            = Concat([j \in 1..Len(Drained(last.calls)) |->
                        OwnMessages(last.node, Drained(last.calls)[j])])

\* node 2 drained two different packets, each with a Message for it, and
\* returned the two Messages in drain order
OrderPreservedWitness ==
  /\ last.op = "recv" /\ last.node = 2 /\ last.ok
  /\ Len(Drained(last.calls)) = 2
  /\ Drained(last.calls)[1] # Drained(last.calls)[2]
  /\ Len(last.messages) = 2
  /\ last.messages[1] # last.messages[2]

\* the framing of raw does not parse
Corrupt(raw) == ~deserialize(raw).ok

\* the raw packets drained before the first one whose framing does not parse
BeforeCorrupt(Dr) ==
  SubSeq(Dr, 1, (CHOOSE j \in 1..Len(Dr) :
                   Corrupt(Dr[j]) /\ \A k \in 1..(j - 1) : ~Corrupt(Dr[k])) - 1)

\* a hop addressed to node n in the raw packets Dr names, before its first
\* colon, a scheme that node n has no Transport for
UnregisteredHop(n, Dr) ==
  \E j \in 1..Len(Dr) :
    \E i \in 1..Len(ExpectedForwards(n, Dr[j])) :
      splitn2(ExpectedForwards(n, Dr[j])[i][1])[1] \notin Registered(transports[n])

\* every buffered raw packet whose framing does not parse fails from_bytes
\* with InvalidPacket at every node, and every one whose framing parses and
\* that holds no chunk built for a key of the node disassembles there to
\* Encrypted chunks, one per blob, each carrying the blob
FramingAtDisassembly ==
  last = NoOutcome =>
    \A x \in Nodes \X Schemes :
      \A raw \in {transports[x[1]][x[2]].inbox[j] :
                    j \in 1..Len(transports[x[1]][x[2]].inbox)} :
        \A n \in Nodes :
          \A d \in {from_bytes(raw, own_skeys[n])} :
            /\ Corrupt(raw) => d = [ok |-> FALSE, val |-> "InvalidPacket"]
            /\ (~Corrupt(raw) /\ OwnChunks(n, raw) = <<>>)
                 => /\ d.ok
                    /\ Len(d.val) = Len(deserialize(raw).val)
                    /\ \A i \in 1..Len(d.val) :
                         d.val[i] = Encrypted(deserialize(raw).val[i])

\* a recv whose receive calls all succeed and that drains only raw packets
\* whose framing parses and that hold no chunk built for a key of the node
\* returns Ok with no Message and sends nothing
ForeignIgnored ==
  (/\ last.op = "recv"
   /\ AllReceived(last.calls)
   /\ \A j \in 1..Len(Drained(last.calls)) :
        /\ ~Corrupt(Drained(last.calls)[j])
        /\ OwnChunks(last.node, Drained(last.calls)[j]) = <<>>)
    => last.ok /\ last.messages = <<>> /\ Sends(last.calls) = <<>>

ModeHeld ==
  /\ \A n \in Nodes :
       /\ mode[n] = "unsigned" =>
            own_skeys[n] = OwnKeys[n] /\ sender_pkeys[n] = <<>>
       /\ mode[n] = "signed" =>
            own_skeys[n] = OwnKeys[n] /\ sender_pkeys[n] \in SenderLists \ {<<>>}
       /\ mode[n] \in {"none", "failed"} =>
            /\ own_skeys[n] = <<>> /\ sender_pkeys[n] = <<>>
            /\ \A s \in Schemes : transports[n][s] = NoTransport
            /\ last # NoOutcome => last.node # n
  /\ (last.op = "recv" /\ last.ok) =>
       IF mode[last.node] = "signed"
         THEN last.messages = <<>> /\ Sends(last.calls) = <<>>
         ELSE last.messages
                = Concat([j \in 1..Len(Drained(last.calls)) |->
                            OwnMessages(last.node, Drained(last.calls)[j])])

\* what one step does to the mode and the keys of each node
ModeStep ==
  /\ \A n \in Nodes :
       mode[n] # "none" =>
         /\ mode'[n] = mode[n]
         /\ own_skeys'[n] = own_skeys[n]
         /\ sender_pkeys'[n] = sender_pkeys[n]
  /\ \A n \in Nodes :
       NewUnsigned(n, OwnKeys[n]) =>
         mode'[n] = "unsigned" /\ sender_pkeys'[n] = <<>>
  /\ \A n \in Nodes, senders \in SenderLists :
       NewSigned(n, OwnKeys[n], senders) =>
         IF senders = <<>>
           THEN mode'[n] = "failed"
           ELSE /\ mode'[n] = "signed"
                /\ sender_pkeys'[n] = senders
                /\ own_skeys'[n] = OwnKeys[n]

\* C13: unsigned builds a Mesher with an empty allow-list; signed fails on an
\* empty allow-list and otherwise builds a Mesher holding exactly the keys
\* given; no later operation changes the own keys or the allow-list, so a
\* Mesher disassembles in signed mode in every recv exactly when signed
\* built it.
ModeFixed == []ModeHeld /\ [][ModeStep]_vars

\* a Mesher built by signed drained a packet holding a Message sealed for one
\* of its own keys, surfaced nothing, and still holds its allow-list
ModeFixedWitness ==
  /\ last.op = "recv" /\ last.ok
  /\ mode[last.node] = "signed"
  /\ sender_pkeys[last.node] = <<pkey(2), pkey(3)>>
  /\ \E j \in 1..Len(Drained(last.calls)) :
       OwnMessages(last.node, Drained(last.calls)[j]) # <<>>
  /\ last.messages = <<>>
  /\ \E n \in Nodes : mode[n] = "failed"

\* a plaintext that is not empty, starts with tag 0 or 1 and, for tag 1, goes
\* on as valid UTF-8
WellFormed(plain) ==
  /\ plain # <<>>
  /\ plain[1] \in {0, 1}
  /\ plain[1] = 1 => IsUtf8(Tail(plain))

\* key sk decrypts bytes to a well-formed plaintext
Opens(bytes, sk) ==
  key_decrypt(sk, bytes).ok /\ WellFormed(key_decrypt(sk, bytes).val)

\* the chunk a well-formed plaintext stands for
ChunkOf(plain) ==
  IF plain[1] = 0 THEN Message(Tail(plain)) ELSE Transport(Tail(plain))

\* the indices of the keys among ks that open bytes
Winners(bytes, ks) == {j \in 1..Len(ks) : Opens(bytes, ks[j])}

\* the least of a non-empty set of numbers
Least(S) == CHOOSE j \in S : \A k \in S : j <= k

OpensMalformed(bytes, sk) ==
  key_decrypt(sk, bytes).ok /\ ~WellFormed(key_decrypt(sk, bytes).val)

\* C15: whatever the blobs and the key list (the empty list included), every
\* blob of a packet whose framing parses disassembles to a chunk, never to an
\* error; a blob that no key opens to a well-formed plaintext - no key
\* decrypts it, or one does to an empty body, an unknown tag or a non-UTF-8
\* path - comes out as Encrypted carrying exactly the blob.
FailOpen ==
  (stage \in {"done", "doneForged"} /\ deserialize(wire).ok) =>
    /\ dis.ok
    /\ Len(dis.val) = Len(deserialize(wire).val)
    /\ \A i \in 1..Len(dis.val) :
         /\ dis.val[i].tag \in {"Message", "Transport", "Encrypted"}
         /\ Winners(deserialize(wire).val[i], keys) = {} =>
              dis.val[i] = Encrypted(deserialize(wire).val[i])

\* of two forged blobs the one key held decrypts the first to an empty body
\* and does not decrypt the second: both come out as Encrypted, unchanged
FailOpenWitness ==
  /\ stage = "doneForged"
  /\ keys = <<1>>
  /\ Len(dis.val) = 2
  /\ OpensMalformed(deserialize(wire).val[1], 1)
  /\ ~key_decrypt(1, deserialize(wire).val[2]).ok
  /\ dis.val[1] = Encrypted(<<11>>)
  /\ dis.val[2] = Encrypted(<<12, 0>>)

\* a drop that is under way has sent Quit unless the listener thread had
\* exited, and nothing follows a Quit among the orders but further Quits
QuitSent ==
  dropping.up =>
    \A i \in 1..Len(dropping.orders) :
      dropping.orders[i].kind = "Quit" =>
        \A j \in i..Len(dropping.orders) : dropping.orders[j] = Quit

\* a step of Drop::drop signals the running listener thread with Quit, and
\* the step that ends the drop finds the listener thread exited
DropStep ==
  /\ DropTurn /\ dropping.worker = "running" =>
       dropping'.up /\ dropping'.orders = Append(dropping.orders, Quit)
  /\ dropping.up /\ ~dropping'.up => dropping.worker = "exited"

\* C16: the drop of a TCP sends Quit to its listener thread and, with the
\* listener thread and the drop loop scheduled fairly, always completes,
\* whatever orders are queued ahead of the Quit and whatever the data channel
\* holds; when it completes the listener thread has exited.
DropTerminates ==
  /\ dropping.up ~> ~dropping.up
  /\ []QuitSent
  /\ [][DropStep]_vars

\* a drop under way: a listen order is queued ahead of the Quit, and the data
\* channel holds a buffer nobody took
DropTerminatesWitness ==
  /\ dropping.up /\ dropping.worker = "running"
  /\ Len(dropping.orders) = 2
  /\ dropping.orders[1].kind = "Rx"
  /\ dropping.orders[2] = Quit
  /\ dropping.inbox = <<RxData>>

\* the step is a call of op by the Mesher
Calls(op) == last = NoOutcome /\ last'.op = op

\* the receive calls among calls that went to the Transport of scheme s
ReceivesOf(calls, s) ==
  SelectSeq(calls, LAMBDA c : c.method = "receive" /\ c.scheme = s)

\* a registered TCP has its listener thread running, and a recv can be
\* called, and returns, whatever orders the listener threads have pending
ReceiveReady ==
  /\ \A s \in Schemes :
       transports[1][s].kind = "tcp" => transports[1][s].worker = "running"
  /\ last = NoOutcome =>
       ENABLED (\E order \in Perms(Registered(transports[1])) :
                  Recv(1, order, 0, FALSE, NoSendFail))

\* what one step does to the data channel of the TCP registered under each
\* scheme: a recv calls its receive once, which succeeds, returns all the
\* channel held, in the channel's order, and leaves it empty; a turn of its
\* listener thread on an Rx order puts one buffer at the channel's end; the
\* replacement of the TCP lets go of the handle; nothing else touches it
ReceiveStep ==
  \A s \in Schemes :
    transports[1][s].kind = "tcp" =>
      /\ Calls("recv") =>
           /\ ReceivesOf(last'.calls, s)
                = <<Called("receive", s, <<>>, <<>>, TRUE, transports[1][s].inbox)>>
           /\ transports'[1][s].inbox = <<>>
      /\ Listener(s) =>
           transports'[1][s].inbox
             = transports[1][s].inbox
                 \o (IF Head(transports[1][s].orders).kind = "Rx"
                       THEN <<RxData>> ELSE <<>>)
      /\ (/\ ~Calls("recv")
          /\ ~Listener(s)
          /\ ~(Calls("add_transport") /\ last'.ok /\ last'.calls[1].scheme = s))
           => transports'[1][s].inbox = transports[1][s].inbox

\* C17: TCP receive returns without waiting for the listener thread, with
\* the buffers the thread handed over so far in the order it enqueued them
\* (none: an empty list, not an error); while the handle is alive every
\* buffer the thread enqueues is returned by exactly one receive call.
ReceiveDrains == []ReceiveReady /\ [][ReceiveStep]_vars

\* a recv took the one buffer the listener thread had handed over while the
\* thread still had a listen order pending; the next recv gets that one
ReceiveDrainsWitness ==
  /\ last.op = "recv"
  /\ \E s \in Schemes :
       /\ ReceivesOf(last.calls, s)
            = <<Called("receive", s, <<>>, <<>>, TRUE, <<RxData>>)>>
       /\ transports[1][s].inbox = <<>>
       /\ transports[1][s].orders # <<>>
       /\ Head(transports[1][s].orders).kind = "Rx"

\* C18: recv calls receive on every registered Transport before it processes
\* a packet; when a receive call fails, recv stops there and returns that
\* failure, having sent nothing and surfaced no Message, whatever the other
\* Transports had buffered.
DrainFirst ==
  last.op = "recv" =>
    /\ \A i \in 1..Len(last.calls), j \in 1..Len(last.calls) :
         (last.calls[i].method = "send" /\ last.calls[j].method = "receive")
           => j < i
    /\ AllReceived(last.calls) =>
         Len(Receives(last.calls)) = Cardinality(Registered(transports[last.node]))
    /\ ~AllReceived(last.calls) =>
         /\ ~last.ok
         /\ last.err = Fail("ReceiveFailure", <<>>)
         /\ ~last.calls[Len(last.calls)].ok
         /\ Len(Receives(last.calls)) = Len(last.calls)
         /\ \A i \in 1..(Len(last.calls) - 1) : last.calls[i].ok
         /\ Sends(last.calls) = <<>>
         /\ last.messages = <<>>

\* node 1's first Transport handed over a packet with two Messages and a hop
\* for node 1, its second Transport failed: no Message, no send
DrainFirstWitness ==
  /\ last.op = "recv" /\ last.node = 1 /\ ~last.ok
  /\ last.err = Fail("ReceiveFailure", <<>>)
  /\ Len(last.calls) = 2
  /\ last.calls[1].ok /\ last.calls[1].got = <<into_bytes(PacketMsgs)>>
  /\ ~last.calls[2].ok
  /\ ExpectedForwards(1, into_bytes(PacketMsgs)) # <<>>
  /\ OwnMessages(1, into_bytes(PacketMsgs)) = <<D, E>>
  /\ last.messages = <<>>
  /\ Sends(last.calls) = <<>>

\* what the Transports of node n held, before the step, in the order the
\* receive calls among calls went round them
PreDrain(n, calls) ==
  Concat([i \in 1..Len(Receives(calls)) |->
            transports[n][Receives(calls)[i].scheme].inbox])

\* the blobs that the successful send calls among calls addressed to node n
\* over scheme s
LoopedBack(n, s, calls) ==
  LET own == SelectSeq(calls, LAMBDA c : /\ c.method = "send" /\ c.ok
                                        /\ c.scheme = s
                                        /\ AddrNode(c.path) = n)
  IN [i \in 1..Len(own) |-> own[i].blob]

\* s is what t starts with
IsPrefix(s, t) == Len(s) <= Len(t) /\ s = SubSeq(t, 1, Len(s))

\* the hops addressed to a key of node n in the raw packets Dr
HopCount(n, Dr) ==
  Len(Concat([j \in 1..Len(Dr) |-> ExpectedForwards(n, Dr[j])]))

\* a recv whose receive calls all succeed processes the packets its
\* Transports held when it was called, no other and none twice; what its
\* forwards bring back to the node stays buffered when it returns (all of
\* it, unless the network was full and lost some)
RecvStep ==
  (Calls("recv") /\ AllReceived(last'.calls)) =>
    \A n \in {last'.node} :
      \A Dr \in {PreDrain(n, last'.calls)} :
        /\ Drained(last'.calls) = Dr
        /\ Len(Sends(last'.calls)) <= HopCount(n, Dr)
        /\ last'.ok =>
             /\ Len(Sends(last'.calls)) = HopCount(n, Dr)
             /\ last'.messages = Concat([j \in 1..Len(Dr) |-> OwnMessages(n, Dr[j])])
        /\ \A s \in Registered(transports[n]) :
             /\ IsPrefix(transports'[n][s].inbox, LoopedBack(n, s, last'.calls))
             /\ InFlight(transports') < NetCapacity =>
                  transports'[n][s].inbox = LoopedBack(n, s, last'.calls)

\* C19: the packets a recv processes are those its drain collected at the
\* start; a packet that a forward of the same recv sends back to the node's
\* own Transport is not processed in that call, which so ends after at most
\* one send per hop of the drained packets, and waits in the buffer for the
\* next recv.
NoReprocessing == [][RecvStep]_vars

\* node 1 drained from its Transport b the packet whose hop leads back to
\* that Transport, surfaced its two Messages once and sent it once; the
\* packet is buffered there again
NoReprocessingWitness ==
  /\ last.op = "recv" /\ last.node = 1 /\ last.ok
  /\ Receives(last.calls)
       = <<Called("receive", <<98>>, <<>>, <<>>, TRUE, <<into_bytes(PacketMsgs)>>)>>
  /\ Sends(last.calls) = <<Call("send", <<98>>, PathB1, into_bytes(PacketMsgs), TRUE)>>
  /\ last.messages = <<D, E>>
  /\ transports[1][<<98>>].inbox = <<into_bytes(PacketMsgs)>>

\* what the receive calls among calls took out of the buffer of node m's
\* Transport of scheme s, when n is the node that made the calls
Taken(n, m, s, calls) ==
  IF m = n THEN Concat([i \in 1..Len(ReceivesOf(calls, s)) |->
                          ReceivesOf(calls, s)[i].got])
           ELSE <<>>

\* t without what it starts with, s
Without(t, s) == SubSeq(t, Len(s) + 1, Len(t))

\* what a recv, failed or not, does to every buffer of the network: the
\* packets a receive call hands over leave the head of that Transport's
\* buffer, nothing is put back, and the only packets added anywhere are
\* those its successful sends addressed there (all of them, unless the
\* network was full and lost some)
ConsumeStep ==
  Calls("recv") =>
    \A m \in Nodes, s \in Schemes :
      \A took \in {Taken(last'.node, m, s, last'.calls)} :
        \A sent \in {LoopedBack(m, s, last'.calls)} :
          /\ Len(ReceivesOf(last'.calls, s)) <= 1
          /\ IsPrefix(took, transports[m][s].inbox)
          /\ IsPrefix(Without(transports[m][s].inbox, took), transports'[m][s].inbox)
          /\ IsPrefix(Without(transports'[m][s].inbox,
                              Without(transports[m][s].inbox, took)), sent)
          /\ (transports[m][s].up /\ InFlight(transports') < NetCapacity) =>
               transports'[m][s].inbox
                 = Without(transports[m][s].inbox, took) \o sent

\* C20: a raw packet that a Transport hands over to a recv is gone from the
\* Transport and so reaches no other recv; a recv that fails puts none of the
\* packets it drained back into a buffer, whether it had processed them or
\* not, and the forwards it sent before it failed stay delivered.
AtMostOnce == [][ConsumeStep]_vars

\* node 1 drained a packet for relay and unparsable bytes, forwarded the
\* first to node 2 and failed on the second: its own buffers are empty and
\* the forward is buffered at node 2
AtMostOnceWitness ==
  /\ last.op = "recv" /\ last.node = 1 /\ ~last.ok
  /\ last.err = Fail("InvalidPacket", <<>>)
  /\ Drained(last.calls) = <<into_bytes(PacketRelay), <<>>>>
  /\ Sends(last.calls) = <<Call("send", <<97>>, PathA2, into_bytes(PacketRelay), TRUE)>>
  /\ \A s \in Schemes : transports[1][s].inbox = <<>>
  /\ transports[2][<<97>>].inbox = <<into_bytes(PacketRelay)>>
====
